---- MODULE Spec2Model ----
(***************************************************************************)
(* Coordinate transformations of sunpy/coordinates/transformations.py.     *)
(*                                                                         *)
(* Every transform function is a pure function of a source point and a     *)
(* destination frame.  The state machine draws one (point, frame) pair,    *)
(* applies the transform registered for the pair of frame types, and may   *)
(* send the result back to the frame it came from (the A -> B -> A round   *)
(* trip).                                                                  *)
(*                                                                         *)
(* Number system.  Angles are whole degrees, lengths are whole model       *)
(* units; instants are scalars.  The trigonometric functions are exact on  *)
(* whole quarter turns and the Euclidean norm is exact on axis-aligned     *)
(* vectors; a computation that leaves this grid has outcome "offgrid",     *)
(* and an action is only taken on inputs whose outcome is on the grid.     *)
(***************************************************************************)
EXTENDS Integers, Sequences, FiniteSets, TLC

\* ---------------------------------------------------------------- bounds
MaxInstant == 2
MaxCalls == 2
\* the most values in the distance of a batched point
MaxBatch == 3
\* the most calls of _make_sunpy_graph in one run of the process
MaxRuns == 2
\* the most query blocks of one JSOC response
MaxBlocks == 2
\* the sleeps of JSOCClient.get that are counted
MaxSleeps == 2

\* ------------------------------------------------------------- constants
\* Python None as the value of an obstime attribute
NoneT == -1
\* default obstime of an astropy HCRS frame built from the class
J2000 == 0
\* RSUN_METERS in model length units
RSUN == 100000
\* default rtol of astropy.units.allclose is 1e-5 = 1 / RtolInv
RtolInv == 100000

Instants == 1..MaxInstant
ObsTimes == {NoneT} \cup Instants

\* ------------------------------------------------------------- observers
\* An observer attribute is a label (a string such as "earth"), a
\* BaseCoordinateFrame with lat, lon and radius, or absent.
Label(n) == [kind |-> "label", name |-> n, lat |-> 0, lon |-> 0, radius |-> 0]
ObserverFrame(lat, lon, radius) ==
    [kind |-> "frame", name |-> "", lat |-> lat, lon |-> lon, radius |-> radius]
NoObserver == [kind |-> "none", name |-> "", lat |-> 0, lon |-> 0, radius |-> 0]

\* isinstance(obs, BaseCoordinateFrame)
IsFrame(obs) == obs.kind = "frame"

ObsRadii == {2 * RSUN, 2 * RSUN + 1, 3 * RSUN}
Labels == {Label("earth"), Label("mars")}
GeomObservers ==
    {ObserverFrame(lat, lon, r) : lat \in {0, 90}, lon \in {0, 90}, r \in ObsRadii}
Observers == Labels \cup GeomObservers

\* ---------------------------------------------------- frames and points
Frame(type, obstime, observer) ==
    [type |-> type, obstime |-> obstime, observer |-> observer]
NoFrame == Frame("none", NoneT, NoObserver)

\* Representation data.  rep = "sph": c1 = lon, c2 = lat, c3 = distance and
\* unit is the unit of the distance ("one" = dimensionless, "km" = length).
\* rep = "cart": c1 = x, c2 = y, c3 = z, lengths.
Rep(rep, c1, c2, c3, unit) ==
    [rep |-> rep, c1 |-> c1, c2 |-> c2, c3 |-> c3, unit |-> unit]
NoData == Rep("none", 0, 0, 0, "none")

\* SphericalRepresentation(lon, lat, distance): the longitude is stored as a
\* Longitude, wrapped into [0, 360)
SphericalRepresentation(lon, lat, distance, unit) ==
    Rep("sph", lon % 360, lat, distance, unit)
CartesianRepresentation(x, y, z) == Rep("cart", x, y, z, "km")

Point(frame, data) == [frame |-> frame, data |-> data]
NoPoint == Point(NoFrame, NoData)

\* frame.realize_frame(representation)
realize_frame(frame, data) == Point(frame, data)

\* ------------------------------------------------------------- outcomes
Hop(fn, src, dst) == [fn |-> fn, src |-> src, dst |-> dst]

NoVec == <<0, 0, 0>>
NoMat == <<NoVec, NoVec, NoVec>>

Outcome(status, exc, msg, pt, hops, matrix, offset, queries) ==
    [status |-> status, exc |-> exc, msg |-> msg, pt |-> pt, hops |-> hops,
     matrix |-> matrix, offset |-> offset, queries |-> queries]

NoOutcome == Outcome("none", "none", "none", NoPoint, <<>>, NoMat, NoVec, <<>>)
\* return pt
Return(pt, hops) == Outcome("ok", "none", "none", pt, hops, NoMat, NoVec, <<>>)
\* raise exc(msg)
Raise(exc, msg, hops) == Outcome("error", exc, msg, NoPoint, hops, NoMat, NoVec, <<>>)
\* the value is not representable in the model's number system
OffGrid(hops) == Outcome("offgrid", "none", "none", NoPoint, hops, NoMat, NoVec, <<>>)

\* an outcome of a nested call, seen from the caller: the caller's hops
\* come first
Prepend(hops, out) == [out EXCEPT !.hops = hops \o out.hops]

\* ------------------------------------------------------- grid arithmetic
Abs(n) == IF n < 0 THEN -n ELSE n
Sgn(n) == IF n < 0 THEN -1 ELSE IF n > 0 THEN 1 ELSE 0

IsQuarter(a) == a % 90 = 0
\* np.cos, np.sin of an angle in degrees that is a whole quarter turn
Cos(a) == CASE a % 360 = 0 -> 1
            [] a % 360 = 90 -> 0
            [] a % 360 = 180 -> -1
            [] a % 360 = 270 -> 0
Sin(a) == CASE a % 360 = 0 -> 0
            [] a % 360 = 90 -> 1
            [] a % 360 = 180 -> 0
            [] a % 360 = 270 -> -1

\* at most one component of the vector is not zero
AxisAligned(x, y, z) ==
    \/ x = 0 /\ y = 0
    \/ x = 0 /\ z = 0
    \/ y = 0 /\ z = 0
\* sqrt(x**2 + y**2 + z**2) of an axis-aligned vector
Norm(x, y, z) == Abs(x) + Abs(y) + Abs(z)

\* np.arctan2(y, x) in degrees, for y = 0 or x = 0
Arctan2(y, x) == IF y = 0 THEN (IF x < 0 THEN 180 ELSE 0)
                 ELSE IF y > 0 THEN 90 ELSE -90

\* astropy.units.allclose(a, b): |a - b| <= atol + rtol * |b| with atol = 0
allclose(a, b) == Abs(a - b) <= Abs(b) \div RtolInv

\* point.spherical: the data as a SphericalRepresentation.  Cartesian data
\* is converted as astropy converts it: lon = arctan2(y, x),
\* lat = arctan2(z, hypot(x, y)), distance = norm.
SphericalOnGrid(data) ==
    data.rep = "sph" \/ (data.rep = "cart" /\ AxisAligned(data.c1, data.c2, data.c3))
spherical(data) ==
    IF data.rep = "sph" THEN data
    ELSE SphericalRepresentation(Arctan2(data.c2, data.c1),
                                 Arctan2(data.c3, Abs(data.c1) + Abs(data.c2)),
                                 Norm(data.c1, data.c2, data.c3), "km")

\* ---------------------------------------------- 4.2 Carrington offset
\* sunpy.coordinates.sun.L0: the Carrington longitude of the central
\* meridian, a pure function of the instant
L0(obstime) == (90 * obstime) % 360

\* _carrington_offset(obstime): the offset, or the error it raises
_carrington_offset(obstime) ==
    IF obstime = NoneT
    THEN [status |-> "error", exc |-> "ValueError", msg |-> "needs_obstime", val |-> 0]
    ELSE [status |-> "ok", exc |-> "none", msg |-> "none", val |-> L0(obstime)]

\* ---------------------------------------------- 4.3 Stonyhurst <-> Carrington
\* hgs_to_hgc that only rejects an unset destination obstime
hgs_to_hgc_unset_only(hgscoord, hgcframe) ==
    LET hop == <<Hop("hgs_to_hgc", hgscoord.frame, hgcframe)>>
        off == _carrington_offset(hgscoord.frame.obstime)
        sph == spherical(hgscoord.data)
    IN  IF hgcframe.obstime = NoneT
        THEN Raise("ValueError", "matching_obstime", hop)
        ELSE IF off.status = "error" THEN Raise(off.exc, off.msg, hop)
        ELSE Return(realize_frame(Frame(hgcframe.type, hgscoord.frame.obstime,
                                        NoObserver),
                                  SphericalRepresentation(sph.c1 + off.val, sph.c2,
                                                          sph.c3, sph.unit)),
                    hop)

\* hgs_to_hgc that subtracts the offset
hgs_to_hgc_minus(hgscoord, hgcframe) ==
    LET hop == <<Hop("hgs_to_hgc", hgscoord.frame, hgcframe)>>
        off == _carrington_offset(hgscoord.frame.obstime)
        sph == spherical(hgscoord.data)
    IN  IF hgcframe.obstime = NoneT \/ hgcframe.obstime # hgscoord.frame.obstime
        THEN Raise("ValueError", "matching_obstime", hop)
        ELSE IF off.status = "error" THEN Raise(off.exc, off.msg, hop)
        ELSE Return(realize_frame(Frame(hgcframe.type, hgscoord.frame.obstime,
                                        NoObserver),
                                  SphericalRepresentation(sph.c1 - off.val, sph.c2,
                                                          sph.c3, sph.unit)),
                    hop)

hgs_to_hgc(hgscoord, hgcframe) ==
    LET hop == <<Hop("hgs_to_hgc", hgscoord.frame, hgcframe)>>
        off == _carrington_offset(hgscoord.frame.obstime)
        sph == spherical(hgscoord.data)
    IN  IF hgcframe.obstime = NoneT \/ hgcframe.obstime # hgscoord.frame.obstime
        THEN Raise("ValueError", "matching_obstime", hop)
        ELSE IF off.status = "error" THEN Raise(off.exc, off.msg, hop)
        ELSE IF ~SphericalOnGrid(hgscoord.data) THEN OffGrid(hop)
        ELSE Return(realize_frame(Frame(hgcframe.type, hgscoord.frame.obstime,
                                        NoObserver),
                                  SphericalRepresentation(sph.c1 + off.val, sph.c2,
                                                          sph.c3, sph.unit)),
                    hop)

\* hgc_to_hgs that adds the offset
hgc_to_hgs_plus(hgccoord, hgsframe) ==
    LET hop == <<Hop("hgc_to_hgs", hgccoord.frame, hgsframe)>>
        off == _carrington_offset(hgsframe.obstime)
        sph == spherical(hgccoord.data)
    IN  IF hgsframe.obstime = NoneT \/ hgsframe.obstime # hgccoord.frame.obstime
        THEN Raise("ValueError", "matching_obstime", hop)
        ELSE IF off.status = "error" THEN Raise(off.exc, off.msg, hop)
        ELSE Return(realize_frame(hgsframe,
                                  SphericalRepresentation(sph.c1 + off.val, sph.c2,
                                                          sph.c3, sph.unit)),
                    hop)

hgc_to_hgs(hgccoord, hgsframe) ==
    LET hop == <<Hop("hgc_to_hgs", hgccoord.frame, hgsframe)>>
        off == _carrington_offset(hgsframe.obstime)
        sph == spherical(hgccoord.data)
    IN  IF hgsframe.obstime = NoneT \/ hgsframe.obstime # hgccoord.frame.obstime
        THEN Raise("ValueError", "matching_obstime", hop)
        ELSE IF off.status = "error" THEN Raise(off.exc, off.msg, hop)
        ELSE IF ~SphericalOnGrid(hgccoord.data) THEN OffGrid(hop)
        ELSE Return(realize_frame(hgsframe,
                                  SphericalRepresentation(sph.c1 - off.val, sph.c2,
                                                          sph.c3, sph.unit)),
                    hop)

\* ---------------------------------------------- vectors and matrices
VAdd(u, v) == <<u[1] + v[1], u[2] + v[2], u[3] + v[3]>>
VSub(u, v) == <<u[1] - v[1], u[2] - v[2], u[3] - v[3]>>
VNeg(v) == <<-v[1], -v[2], -v[3]>>
Dot(u, v) == u[1] * v[1] + u[2] * v[2] + u[3] * v[3]
\* A.cross(B)
Cross(u, v) == <<u[2] * v[3] - u[3] * v[2],
                 u[3] * v[1] - u[1] * v[3],
                 u[1] * v[2] - u[2] * v[1]>>
\* representation.transform(matrix): matrix . v
MatVec(m, v) == <<Dot(m[1], v), Dot(m[2], v), Dot(m[3], v)>>
Col(m, j) == <<m[1][j], m[2][j], m[3][j]>>
matrix_product(a, b) ==
    <<<<Dot(a[1], Col(b, 1)), Dot(a[1], Col(b, 2)), Dot(a[1], Col(b, 3))>>,
      <<Dot(a[2], Col(b, 1)), Dot(a[2], Col(b, 2)), Dot(a[2], Col(b, 3))>>,
      <<Dot(a[3], Col(b, 1)), Dot(a[3], Col(b, 2)), Dot(a[3], Col(b, 3))>>>>
matrix_transpose(m) == <<Col(m, 1), Col(m, 2), Col(m, 3)>>

\* np.arccos of -1, 0 or 1, in degrees
Arccos(c) == IF c = 1 THEN 0 ELSE IF c = 0 THEN 90 ELSE 180

\* astropy rotation_matrix(angle, axis) for an axis given as a vector: the
\* axis is normalised, so a zero axis gives a matrix of NaN (nan = TRUE)
rotation_matrix(angle, axis) ==
    LET k == <<Sgn(axis[1]), Sgn(axis[2]), Sgn(axis[3])>>
        c == Cos(angle)
        s == Sin(angle)
    IN  [nan |-> (axis = <<0, 0, 0>>),
         m |-> <<<<k[1] * k[1] * (1 - c) + c,
                   k[1] * k[2] * (1 - c) + k[3] * s,
                   k[1] * k[3] * (1 - c) - k[2] * s>>,
                 <<k[2] * k[1] * (1 - c) - k[3] * s,
                   k[2] * k[2] * (1 - c) + c,
                   k[2] * k[3] * (1 - c) + k[1] * s>>,
                 <<k[3] * k[1] * (1 - c) + k[2] * s,
                   k[3] * k[2] * (1 - c) - k[1] * s,
                   k[3] * k[3] * (1 - c) + c>>>>]

\* the matrix of the direct rotation from A to B, for axis-aligned A and B
_make_rotation_matrix_from_reprs(A, B) ==
    LET rotation_axis == Cross(A, B)
        rotation_angle == -Arccos(Sgn(Dot(A, B)))
    IN  rotation_matrix(rotation_angle, rotation_axis)

\* to_cartesian() of a SphericalRepresentation with quarter-turn angles
ToCartesianOnGrid(sph) == IsQuarter(sph.c1) /\ IsQuarter(sph.c2)
to_cartesian(sph) ==
    <<sph.c3 * Cos(sph.c2) * Cos(sph.c1),
      sph.c3 * Cos(sph.c2) * Sin(sph.c1),
      sph.c3 * Sin(sph.c2)>>

\* _SOLAR_NORTH_POLE_HCRS, taken on the grid: lon = 270 deg, lat = 0 deg
\* (the source has lon = 286.13 deg, lat = 63.87 deg)
_SOLAR_NORTH_POLE_HCRS == to_cartesian(SphericalRepresentation(270, 0, 1, "one"))

_SUN_DETILT_MATRIX ==
    _make_rotation_matrix_from_reprs(_SOLAR_NORTH_POLE_HCRS, <<0, 0, 1>>).m

\* ---------------------------------------------- ephemeris oracle
\* get_body_barycentric(body, obstime): the Sun drifts along the x axis of
\* ICRS, the Earth is on alternating sides of it along the z axis
get_body_barycentric(body, obstime) ==
    LET sun == <<3 * obstime + 1, 0, 0>>
    IN  IF body = "sun" THEN sun
        ELSE VAdd(sun, <<0, 0, IF obstime % 2 = 0 THEN 2 * RSUN ELSE -2 * RSUN>>)

\* ---------------------------------------------- 4.7 HCRS <-> Stonyhurst
\* hcrscoord and hgsframe are the frames of the two arguments: only their
\* obstime is read
\* hcrs_to_hgs that takes the Sun's displacement from the destination
\* instant to the source instant
hcrs_to_hgs_swapped(hcrscoord, hgsframe) ==
    LET hop == <<Hop("hcrs_to_hgs", hcrscoord, hgsframe)>>
        sun_pos_icrs == get_body_barycentric("sun", hgsframe.obstime)
        earth_pos_icrs == get_body_barycentric("earth", hgsframe.obstime)
        sun_earth_detilt == MatVec(_SUN_DETILT_MATRIX, VSub(earth_pos_icrs, sun_pos_icrs))
        hgs_x_axis_detilt == <<sun_earth_detilt[1], sun_earth_detilt[2], 0>>
        rot_matrix == _make_rotation_matrix_from_reprs(hgs_x_axis_detilt, <<1, 0, 0>>)
        total_matrix == matrix_product(rot_matrix.m, _SUN_DETILT_MATRIX)
        differ == hcrscoord.obstime # hgsframe.obstime
        sun_pos_old_icrs == get_body_barycentric("sun", hcrscoord.obstime)
        offset == IF differ
                  THEN MatVec(total_matrix, VSub(sun_pos_old_icrs, sun_pos_icrs))
                  ELSE <<0, 0, 0>>
        queries == <<<<"sun", hgsframe.obstime>>, <<"earth", hgsframe.obstime>>>>
                   \o (IF differ THEN <<<<"sun", hcrscoord.obstime>>>> ELSE <<>>)
    IN  IF hgsframe.obstime = NoneT
        THEN Raise("ValueError", "needs_obstime", hop)
        ELSE IF rot_matrix.nan THEN OffGrid(hop)
        ELSE Outcome("ok", "none", "none", NoPoint, hop, total_matrix, offset, queries)

hcrs_to_hgs(hcrscoord, hgsframe) ==
    LET hop == <<Hop("hcrs_to_hgs", hcrscoord, hgsframe)>>
        sun_pos_icrs == get_body_barycentric("sun", hgsframe.obstime)
        earth_pos_icrs == get_body_barycentric("earth", hgsframe.obstime)
        sun_earth == VSub(earth_pos_icrs, sun_pos_icrs)
        sun_earth_detilt == MatVec(_SUN_DETILT_MATRIX, sun_earth)
        hgs_x_axis_detilt == <<sun_earth_detilt[1], sun_earth_detilt[2], 0>>
        x_axis == <<1, 0, 0>>
        rot_matrix == _make_rotation_matrix_from_reprs(hgs_x_axis_detilt, x_axis)
        total_matrix == matrix_product(rot_matrix.m, _SUN_DETILT_MATRIX)
        differ == hcrscoord.obstime # hgsframe.obstime
        sun_pos_old_icrs == get_body_barycentric("sun", hcrscoord.obstime)
        offset_icrf == VSub(sun_pos_icrs, sun_pos_old_icrs)
        offset == IF differ THEN MatVec(total_matrix, offset_icrf) ELSE <<0, 0, 0>>
        queries == <<<<"sun", hgsframe.obstime>>, <<"earth", hgsframe.obstime>>>>
                   \o (IF differ THEN <<<<"sun", hcrscoord.obstime>>>> ELSE <<>>)
    IN  IF hgsframe.obstime = NoneT
        THEN Raise("ValueError", "needs_obstime", hop)
        ELSE IF rot_matrix.nan THEN OffGrid(hop)
        ELSE Outcome("ok", "none", "none", NoPoint, hop, total_matrix, offset, queries)

\* lines 368-371: the inverse of the (matrix, offset) pair fwd
InvertAffine(hop, fwd) ==
    IF fwd.status # "ok" THEN Prepend(hop, fwd)
    ELSE Outcome("ok", "none", "none", NoPoint, hop \o fwd.hops,
                 matrix_transpose(fwd.matrix),
                 MatVec(matrix_transpose(fwd.matrix), VNeg(fwd.offset)),
                 fwd.queries)

\* hgs_to_hcrs that does not negate the offset
hgs_to_hcrs_no_negation(hgscoord, hcrsframe) ==
    LET hop == <<Hop("hgs_to_hcrs", hgscoord, hcrsframe)>>
        fwd == hcrs_to_hgs(hcrsframe, hgscoord)
    IN  IF fwd.status # "ok" THEN Prepend(hop, fwd)
        ELSE Outcome("ok", "none", "none", NoPoint, hop \o fwd.hops,
                     matrix_transpose(fwd.matrix),
                     MatVec(matrix_transpose(fwd.matrix), fwd.offset),
                     fwd.queries)

hgs_to_hcrs(hgscoord, hcrsframe) ==
    InvertAffine(<<Hop("hgs_to_hcrs", hgscoord, hcrsframe)>>,
                 hcrs_to_hgs(hcrsframe, hgscoord))

\* AffineTransform.__call__ of astropy: the registry applies the (matrix,
\* offset) pair to the Cartesian form of the point and realises the result
\* in the destination frame
ApplyAffine(aff, fromcoord, toframe) ==
    LET sph == fromcoord.data
        rep == IF sph.rep = "cart" THEN <<sph.c1, sph.c2, sph.c3>>
               ELSE to_cartesian(sph)
        newrep == VAdd(MatVec(aff.matrix, rep), aff.offset)
    IN  IF aff.status # "ok" THEN aff
        ELSE IF sph.unit = "one"
        THEN Raise("UnitConversionError", "dimensionless_plus_length", aff.hops)
        ELSE IF sph.rep = "sph" /\ ~ToCartesianOnGrid(sph) THEN OffGrid(aff.hops)
        ELSE Outcome("ok", "none", "none",
                     realize_frame(toframe,
                                   CartesianRepresentation(newrep[1], newrep[2], newrep[3])),
                     aff.hops, aff.matrix, aff.offset, aff.queries)

\* ---------------------------------------------- 4.1 observer equality
\* obs_1 == obs_2 in Python: equal labels, or the same observer frame.  Two
\* distinct frame objects with the same lat, lon and radius compare unequal
\* in Python but are then equal by the numeric test, so that equality of
\* the values decides every caller's branch.
PyEq(obs_1, obs_2) == obs_1 = obs_2

\* _observers_are_equal that does not compare the radius
_observers_are_equal_no_radius(obs_1, obs_2, string_ok) ==
    IF string_ok /\ PyEq(obs_1, obs_2)
    THEN [status |-> "ok", exc |-> "none", msg |-> "none", val |-> TRUE]
    ELSE IF ~(IsFrame(obs_1) /\ IsFrame(obs_2))
    THEN [status |-> "error", exc |-> "ValueError", msg |-> "compare_observers",
          val |-> FALSE]
    ELSE [status |-> "ok", exc |-> "none", msg |-> "none",
          val |-> /\ allclose(obs_1.lat, obs_2.lat)
                  /\ allclose(obs_1.lon, obs_2.lon)]

\* the Boolean the function returns, or the error it raises
_observers_are_equal(obs_1, obs_2, string_ok) ==
    IF string_ok /\ PyEq(obs_1, obs_2)
    THEN [status |-> "ok", exc |-> "none", msg |-> "none", val |-> TRUE]
    ELSE IF ~(IsFrame(obs_1) /\ IsFrame(obs_2))
    THEN [status |-> "error", exc |-> "ValueError", msg |-> "compare_observers",
          val |-> FALSE]
    ELSE [status |-> "ok", exc |-> "none", msg |-> "none",
          val |-> /\ allclose(obs_1.lat, obs_2.lat)
                  /\ allclose(obs_1.lon, obs_2.lon)
                  /\ allclose(obs_1.radius, obs_2.radius)]

\* Helioprojective.calculate_distance(): a point without a distance
\* (dimensionless, about 1) is put on the solar surface
calculate_distance(sph) ==
    IF sph.unit = "one" /\ allclose(sph.c3, 1)
    THEN SphericalRepresentation(sph.c1, sph.c2, RSUN, "km")
    ELSE sph

\* frames built from a class: HeliographicStonyhurst, HCRS
DefaultHGS == Frame("HGS", NoneT, NoObserver)
DefaultHCRS == Frame("HCRS", J2000, NoObserver)
\* Heliocentric(observer=obs), HeliographicStonyhurst(obstime=t)
Heliocentric(observer) == Frame("HCC", NoneT, observer)
HeliographicStonyhurst(obstime) == Frame("HGS", obstime, NoObserver)

\* coord.observer = obs
SetObserver(coord, obs) == [coord EXCEPT !.frame.observer = obs]

\* coord.transform_to(frame) looks the pair of frame types up in
\* frame_transform_graph.  For a pair with a registered function that
\* function is called, and the calls below name it directly; the two affine
\* pairs and the two pairs without a registered function follow.

\* A function that calls transform_to continues on the point that call
\* returned and propagates the exception it raised: the rest of such a
\* function is an operator of its own, which takes the outcome of the call.

\* Stonyhurst -> HCRS and HCRS -> Stonyhurst: the registry applies the
\* (matrix, offset) pair of the affine function
transform_hgs_to_hcrs(coord, frame) ==
    ApplyAffine(hgs_to_hcrs(coord.frame, frame), coord, frame)
transform_hcrs_to_hgs(coord, frame) ==
    ApplyAffine(hcrs_to_hgs(coord.frame, frame), coord, frame)

\* ---------------------------------------------- 4.5 Heliocentric <-> Stonyhurst
\* hcc_to_hgs that requires the observer of the destination frame
hcc_to_hgs_dst_observer(helioccoord, heliogframe) ==
    LET hop == <<Hop("hcc_to_hgs", helioccoord.frame, heliogframe)>>
        x == helioccoord.data.c1
        y == helioccoord.data.c2
        z == helioccoord.data.c3
        cosb == Cos(helioccoord.frame.observer.lat)
        sinb == Sin(helioccoord.frame.observer.lat)
        hgln == Arctan2(x, z * cosb - y * sinb) + helioccoord.frame.observer.lon
        hglt == 90 * Sgn(y * cosb + z * sinb)
    IN  IF ~IsFrame(heliogframe.observer)
        THEN Raise("ConvertError", "without_obstime", hop)
        ELSE Return(realize_frame(heliogframe,
                                  SphericalRepresentation(hgln, hglt, Norm(x, y, z), "km")),
                    hop)

hcc_to_hgs(helioccoord, heliogframe) ==
    LET hop == <<Hop("hcc_to_hgs", helioccoord.frame, heliogframe)>>
        x == helioccoord.data.c1
        y == helioccoord.data.c2
        z == helioccoord.data.c3
        l0_rad == helioccoord.frame.observer.lon
        b0_deg == helioccoord.frame.observer.lat
        cosb == Cos(b0_deg)
        sinb == Sin(b0_deg)
        hecr == Norm(x, y, z)
        hgln == Arctan2(x, z * cosb - y * sinb) + l0_rad
        hglt == 90 * Sgn(y * cosb + z * sinb)
    IN  IF ~IsFrame(helioccoord.frame.observer)
        THEN Raise("ConvertError", "without_obstime", hop)
        ELSE IF ~AxisAligned(x, y, z) \/ hecr = 0 \/ ~IsQuarter(b0_deg)
        THEN OffGrid(hop)
        ELSE Return(realize_frame(heliogframe,
                                  SphericalRepresentation(hgln, hglt, hecr, "km")),
                    hop)

\* lines 217-220 with the distance replaced when some value of it is about 1
distance_or_RSUN_any(r, unit) ==
    IF unit = "one" /\ \E i \in 1..Len(r) : allclose(r[i], 1)
    THEN [r |-> [i \in 1..Len(r) |-> RSUN], unit |-> "km"]
    ELSE [r |-> r, unit |-> unit]

\* lines 217-220: r, the values of the distance (one value, or the values of
\* a batch) and their unit, as given or replaced by RSUN_METERS
distance_or_RSUN(r, unit) ==
    IF unit = "one" /\ \A i \in 1..Len(r) : allclose(r[i], 1)
    THEN [r |-> [i \in 1..Len(r) |-> RSUN], unit |-> "km"]
    ELSE [r |-> r, unit |-> unit]

\* lines 215-216 and 222-250 of hgs_to_hcc, for one value r of the distance
\* left by lines 217-220
hgs_to_hcc_with(heliogcoord, heliocframe, r, runit) ==
    LET hop == <<Hop("hgs_to_hcc", heliogcoord.frame, heliocframe)>>
        sph == spherical(heliogcoord.data)
        hglon == sph.c1
        hglat == sph.c2
        l0_rad == heliocframe.observer.lon
        b0_deg == heliocframe.observer.lat
        cosb == Cos(b0_deg)
        sinb == Sin(b0_deg)
        lon == hglon - l0_rad
        cosx == Cos(lon)
        sinx == Sin(lon)
        cosy == Cos(hglat)
        siny == Sin(hglat)
        x == r * cosy * sinx
        y == r * (siny * cosb - cosy * cosx * sinb)
        zz == r * (siny * sinb + cosy * cosx * cosb)
    IN  IF ~IsFrame(heliocframe.observer)
        THEN Raise("ConvertError", "without_obstime", hop)
        ELSE IF ~SphericalOnGrid(heliogcoord.data) \/ ~IsQuarter(lon)
                \/ ~IsQuarter(hglat) \/ ~IsQuarter(b0_deg)
        THEN OffGrid(hop)
        ELSE IF runit = "one"
        THEN Raise("UnitConversionError", "dimensionless_to_km", hop)
        ELSE Return(realize_frame(heliocframe, CartesianRepresentation(x, y, zz)), hop)

hgs_to_hcc(heliogcoord, heliocframe) ==
    hgs_to_hcc_with(heliogcoord, heliocframe,
                    distance_or_RSUN(<<spherical(heliogcoord.data).c3>>,
                                     spherical(heliogcoord.data).unit).r[1],
                    distance_or_RSUN(<<spherical(heliogcoord.data).c3>>,
                                     spherical(heliogcoord.data).unit).unit)

\* hgs_to_hcc on a point whose distance is the batch of values rs (longitude
\* and latitude broadcast): the outcome for each value
hgs_to_hcc_batch(heliogcoord, rs, heliocframe) ==
    [i \in 1..Len(rs) |->
        hgs_to_hcc_with(heliogcoord, heliocframe,
                        distance_or_RSUN(rs, spherical(heliogcoord.data).unit).r[i],
                        distance_or_RSUN(rs, spherical(heliogcoord.data).unit).unit)]

\* ---------------------------------------------- 4.8 same-type transforms
\* line 382, second transform_to call (HCRS -> Stonyhurst), on the outcome
\* of the first
hgs_to_hgs_to_frame(hcrs, to_frame) ==
    IF hcrs.status # "ok" THEN hcrs
    ELSE Prepend(hcrs.hops, transform_hcrs_to_hgs(hcrs.pt, to_frame))

\* the first transform_to call is Stonyhurst -> HCRS
hgs_to_hgs(from_coo, to_frame) ==
    LET hop == <<Hop("hgs_to_hgs", from_coo.frame, to_frame)>>
    IN  IF from_coo.frame.obstime = to_frame.obstime
        THEN Return(realize_frame(to_frame, from_coo.data), hop)
        ELSE Prepend(hop,
                hgs_to_hgs_to_frame(transform_hgs_to_hcrs(from_coo, DefaultHCRS),
                                    to_frame))

\* line 394, third transform_to call (Stonyhurst -> Carrington), on the
\* outcomes of the first two
hgc_to_hgc_to_frame(hgs1, hgs2, to_frame) ==
    IF hgs2.status # "ok" THEN Prepend(hgs1.hops, hgs2)
    ELSE Prepend(hgs1.hops \o hgs2.hops, hgs_to_hgc(hgs2.pt, to_frame))

\* hgc_to_hgc_to_obstime that keeps the Stonyhurst point at the source's
\* instant
hgc_to_hgc_to_source_obstime(hgs1, to_frame) ==
    IF hgs1.status # "ok" THEN hgs1
    ELSE hgc_to_hgc_to_frame(hgs1,
            hgs_to_hgs(hgs1.pt, HeliographicStonyhurst(hgs1.pt.frame.obstime)),
            to_frame)

\* line 393, second transform_to call (Stonyhurst -> Stonyhurst), on the
\* outcome of the first
hgc_to_hgc_to_obstime(hgs1, to_frame) ==
    IF hgs1.status # "ok" THEN hgs1
    ELSE hgc_to_hgc_to_frame(hgs1,
            hgs_to_hgs(hgs1.pt, HeliographicStonyhurst(to_frame.obstime)), to_frame)

\* hgc_to_hgc without the branch for equal instants
hgc_to_hgc_always_routed(from_coo, to_frame) ==
    Prepend(<<Hop("hgc_to_hgc", from_coo.frame, to_frame)>>,
        hgc_to_hgc_to_obstime(
            hgc_to_hgs(from_coo, HeliographicStonyhurst(from_coo.frame.obstime)),
            to_frame))

\* the first transform_to call is Carrington -> Stonyhurst
hgc_to_hgc(from_coo, to_frame) ==
    LET hop == <<Hop("hgc_to_hgc", from_coo.frame, to_frame)>>
    IN  IF from_coo.frame.obstime = to_frame.obstime
        THEN Return(realize_frame(to_frame, from_coo.data), hop)
        ELSE Prepend(hop,
                hgc_to_hgc_to_obstime(
                    hgc_to_hgs(from_coo,
                               HeliographicStonyhurst(from_coo.frame.obstime)),
                    to_frame))

\* lines 406-408: the observer is set on the Stonyhurst point and the second
\* transform_to call (Stonyhurst -> Heliocentric) made, on the outcome of
\* the first
hcc_to_hcc_to_frame(hgscoord, hccframe) ==
    IF hgscoord.status # "ok" THEN hgscoord
    ELSE Prepend(hgscoord.hops,
                 hgs_to_hcc(SetObserver(hgscoord.pt, hccframe.observer), hccframe))

\* hcc_to_hcc that compares the observers without string_ok
hcc_to_hcc_no_string(hcccoord, hccframe) ==
    LET hop == <<Hop("hcc_to_hcc", hcccoord.frame, hccframe)>>
        eq == _observers_are_equal(hcccoord.frame.observer, hccframe.observer, FALSE)
    IN  IF eq.status = "error" THEN Raise(eq.exc, eq.msg, hop)
        ELSE IF eq.val THEN Return(realize_frame(hccframe, hcccoord.data), hop)
        ELSE Prepend(hop,
                     hcc_to_hcc_to_frame(hcc_to_hgs(hcccoord, DefaultHGS), hccframe))

\* the first transform_to call is Heliocentric -> Stonyhurst
hcc_to_hcc(hcccoord, hccframe) ==
    LET hop == <<Hop("hcc_to_hcc", hcccoord.frame, hccframe)>>
        eq == _observers_are_equal(hcccoord.frame.observer, hccframe.observer, TRUE)
    IN  IF eq.status = "error" THEN Raise(eq.exc, eq.msg, hop)
        ELSE IF eq.val THEN Return(realize_frame(hccframe, hcccoord.data), hop)
        ELSE Prepend(hop,
                     hcc_to_hcc_to_frame(hcc_to_hgs(hcccoord, DefaultHGS), hccframe))

\* ---------------------------------------------- 4.4 Heliocentric <-> Helioprojective
\* lines 126-140 of hcc_to_hpc: the projection of the point, once it is in
\* a Heliocentric frame of the destination's observer
hcc_to_hpc_projection(helioccoord, heliopframe) ==
    LET x == helioccoord.data.c1
        y == helioccoord.data.c2
        z == helioccoord.data.c3
        D0 == helioccoord.frame.observer.radius
        distance == Norm(x, y, D0 - z)
        hpcx == Arctan2(x, D0 - z)
        hpcy == 90 * Sgn(y)
    IN  IF ~AxisAligned(x, y, D0 - z) \/ distance = 0
        THEN OffGrid(<<>>)
        ELSE Return(realize_frame(heliopframe,
                                  SphericalRepresentation(hpcx, hpcy, distance, "km")),
                    <<>>)

\* the projection on the outcome of the transform_to call of lines 121-123
hcc_to_hpc_new_helioccoord(new_helioccoord, heliopframe) ==
    IF new_helioccoord.status # "ok" THEN new_helioccoord
    ELSE Prepend(new_helioccoord.hops,
                 hcc_to_hpc_projection(new_helioccoord.pt, heliopframe))

\* the transform_to call is Heliocentric -> Heliocentric
hcc_to_hpc(helioccoord, heliopframe) ==
    LET hop == <<Hop("hcc_to_hpc", helioccoord.frame, heliopframe)>>
        eq == _observers_are_equal(helioccoord.frame.observer, heliopframe.observer,
                                   FALSE)
    IN  IF eq.status = "error" THEN Raise(eq.exc, eq.msg, hop)
        ELSE IF ~eq.val
        THEN Prepend(hop,
                hcc_to_hpc_new_helioccoord(
                    hcc_to_hcc(helioccoord, Heliocentric(heliopframe.observer)),
                    heliopframe))
        ELSE Prepend(hop, hcc_to_hpc_projection(helioccoord, heliopframe))

\* lines 152-153, second transform_to call (Heliocentric -> Heliocentric),
\* on the outcome of the first
hpc_to_hcc_new_helioccoord(helioccoord_heliopobs, heliocframe) ==
    IF helioccoord_heliopobs.status # "ok" THEN helioccoord_heliopobs
    ELSE Prepend(helioccoord_heliopobs.hops,
                 hcc_to_hcc(helioccoord_heliopobs.pt, heliocframe))

\* The body of hpc_to_hcc.  Its first transform_to call is Helioprojective ->
\* Heliocentric, hpc_to_hcc itself: nested is the outcome of that call.
hpc_to_hcc_body(heliopcoord, heliocframe, nested) ==
    LET hop == <<Hop("hpc_to_hcc", heliopcoord.frame, heliocframe)>>
        eq == _observers_are_equal(heliopcoord.frame.observer, heliocframe.observer,
                                   FALSE)
        sph == calculate_distance(spherical(heliopcoord.data))
        x == sph.c1
        y == sph.c2
        rx == sph.c3 * Cos(y) * Sin(x)
        ry == sph.c3 * Sin(y)
        rz == heliopcoord.frame.observer.radius - sph.c3 * Cos(y) * Cos(x)
    IN  IF eq.status = "error" THEN Raise(eq.exc, eq.msg, hop)
        ELSE IF ~eq.val
        THEN Prepend(hop,
                     hpc_to_hcc_new_helioccoord(nested, heliocframe))
        ELSE IF ~IsFrame(heliopcoord.frame.observer)
        THEN Raise("ConvertError", "without_obstime", hop)
        ELSE IF ~SphericalOnGrid(heliopcoord.data) \/ ~IsQuarter(x) \/ ~IsQuarter(y)
        THEN OffGrid(hop)
        ELSE Return(realize_frame(heliocframe, CartesianRepresentation(rx, ry, rz)), hop)

\* a call of hpc_to_hcc nested deeper than the model unrolls: Python's
\* recursion limit
TooDeep(heliopcoord, heliocframe) ==
    Raise("RecursionError", "maximum_recursion_depth",
          <<Hop("hpc_to_hcc", heliopcoord.frame, heliocframe)>>)
\* the call of hpc_to_hcc made by hpc_to_hcc
hpc_to_hcc_nested(heliopcoord, heliocframe) ==
    hpc_to_hcc_body(heliopcoord, heliocframe,
                    TooDeep(heliopcoord, Heliocentric(heliopcoord.frame.observer)))

\* hpc_to_hcc whose nested call takes the observer of the destination frame
hpc_to_hcc_dst_observer(heliopcoord, heliocframe) ==
    hpc_to_hcc_body(heliopcoord, heliocframe,
                    hpc_to_hcc_nested(heliopcoord,
                                      Heliocentric(heliocframe.observer)))

hpc_to_hcc(heliopcoord, heliocframe) ==
    hpc_to_hcc_body(heliopcoord, heliocframe,
                    hpc_to_hcc_nested(heliopcoord,
                                      Heliocentric(heliopcoord.frame.observer)))

\* ---------------------------------------------- paths of the registry
\* Helioprojective -> Stonyhurst and Stonyhurst -> Helioprojective have no
\* registered function: the registry goes through Heliocentric.  The
\* intermediate frame takes its observer from the destination frame if that
\* has one, else from the source point.
InterHeliocentric(coord, frame) ==
    Heliocentric(IF frame.observer.kind # "none" THEN frame.observer
                 ELSE coord.frame.observer)
\* the second step of each path, on the outcome of the first
step_hcc_to_hgs(hcc, frame) ==
    IF hcc.status # "ok" THEN hcc ELSE Prepend(hcc.hops, hcc_to_hgs(hcc.pt, frame))
step_hcc_to_hpc(hcc, frame) ==
    IF hcc.status # "ok" THEN hcc ELSE Prepend(hcc.hops, hcc_to_hpc(hcc.pt, frame))

transform_hpc_to_hgs(coord, frame) ==
    step_hcc_to_hgs(hpc_to_hcc(coord, InterHeliocentric(coord, frame)), frame)
transform_hgs_to_hpc(coord, frame) ==
    step_hcc_to_hpc(hgs_to_hcc(coord, InterHeliocentric(coord, frame)), frame)

\* ---------------------------------------------- 4.6 Helioprojective -> Helioprojective
\* lines 275-276: the observer is set on the Stonyhurst point and the second
\* transform_to call (Stonyhurst -> Helioprojective) made, on the outcome of
\* the first
hpc_to_hpc_to_frame(hgs, heliopframe) ==
    IF hgs.status # "ok" THEN hgs
    ELSE Prepend(hgs.hops,
                 transform_hgs_to_hpc(SetObserver(hgs.pt, heliopframe.observer),
                                      heliopframe))

\* the first transform_to call is Helioprojective -> Stonyhurst
hpc_to_hpc(heliopcoord, heliopframe) ==
    LET hop == <<Hop("hpc_to_hpc", heliopcoord.frame, heliopframe)>>
        obs_1 == heliopcoord.frame.observer
        obs_2 == heliopframe.observer
    IN  IF PyEq(obs_1, obs_2)
        THEN Return(realize_frame(heliopframe, heliopcoord.data), hop)
        ELSE IF ~IsFrame(obs_1) \/ ~IsFrame(obs_2)
        THEN Raise("AttributeError", "no_attribute_lat", hop)
        ELSE IF /\ allclose(obs_1.lat, obs_2.lat)
                /\ allclose(obs_1.lon, obs_2.lon)
                /\ allclose(obs_1.radius, obs_2.radius)
        THEN Return(realize_frame(heliopframe, heliopcoord.data), hop)
        ELSE IF ~IsFrame(obs_2) THEN Raise("ConvertError", "without_obstime", hop)
        ELSE IF ~IsFrame(obs_1) THEN Raise("ConvertError", "without_obstime", hop)
        ELSE Prepend(hop,
                     hpc_to_hpc_to_frame(transform_hpc_to_hgs(heliopcoord, DefaultHGS),
                                         heliopframe))

\* ---------------------------------------------- inputs
SphData ==
    {SphericalRepresentation(lon, lat, d[2], d[1]) :
        lon \in {0, 90, 350}, lat \in {0, 90},
        d \in {<<"one", 1>>, <<"one", 2>>, <<"km", RSUN>>, <<"km", 1>>}}
\* the values that follow the first in the distance of a batched point
BatchTails ==
    UNION {[1..n -> {1, 2, RSUN}] : n \in 0..(MaxBatch - 1)}
HpcData ==
    {SphericalRepresentation(Tx, 0, d[2], d[1]) :
        Tx \in {0, 90}, d \in {<<"one", 1>>, <<"km", RSUN>>}}
CartData ==
    {CartesianRepresentation(0, 0, RSUN), CartesianRepresentation(RSUN, 0, 0),
     CartesianRepresentation(0, RSUN, 0), CartesianRepresentation(0, 0, -RSUN)}

FrameTypes == {"HGS", "HGC", "HCC", "HPC", "HCRS"}

\* the source points of a frame type
SrcPoints(type) ==
    CASE type \in {"HGS", "HGC"} ->
            {Point(Frame(type, t, NoObserver), d) : t \in ObsTimes, d \in SphData}
      [] type = "HCC" ->
            {Point(Frame(type, NoneT, o), d) : o \in Observers, d \in CartData}
      [] type = "HPC" ->
            {Point(Frame(type, NoneT, o), d) : o \in Observers, d \in HpcData}
      [] type = "HCRS" ->
            {Point(Frame(type, t, NoObserver), d) :
                t \in {J2000} \cup Instants,
                d \in {CartesianRepresentation(RSUN, 0, 0),
                       CartesianRepresentation(0, 0, RSUN)}}

\* the destination frames of a frame type, for a source of type from.  A
\* Stonyhurst frame has no observer attribute of its own; one may be set on
\* the object, as hcc_to_hcc and hpc_to_hpc do.
DstFrames(from, type) ==
    CASE type = "HGS" /\ from = "HCC" ->
            {Frame(type, t, o) : t \in ObsTimes,
                o \in {NoObserver, Label("earth"), ObserverFrame(0, 0, 2 * RSUN)}}
      [] type = "HGS" /\ from # "HCC" ->
            {Frame(type, t, NoObserver) : t \in ObsTimes}
      [] type = "HGC" -> {Frame(type, t, NoObserver) : t \in ObsTimes}
      [] type \in {"HCC", "HPC"} -> {Frame(type, NoneT, o) : o \in Observers}
      [] type = "HCRS" -> {Frame(type, t, NoObserver) : t \in {J2000} \cup Instants}

\* the pairs of frame types with a registered transform function
Registered ==
    {<<"HGS", "HGC">>, <<"HGC", "HGS">>, <<"HCC", "HPC">>, <<"HPC", "HCC">>,
     <<"HCC", "HGS">>, <<"HGS", "HCC">>, <<"HPC", "HPC">>, <<"HCRS", "HGS">>,
     <<"HGS", "HCRS">>, <<"HGS", "HGS">>, <<"HGC", "HGC">>, <<"HCC", "HCC">>}

\* ---------------------------------------------- 4.9 the registry
\* A transform graph: the names of its frames and its edges, pairs
\* <<from, to>> of frame names
Graph(names, edges) == [names |-> names, edges |-> edges]
NoGraph == Graph({}, {})

\* frame_transform_graph: the graph object that the module-level name
\* refers to; graphs: the graph objects, by reference (graphs[i] is the
\* content of object i); backup_graph, small_graph: the locals of
\* _make_sunpy_graph (0 = not bound); mpc: the statement that
\* _make_sunpy_graph executes next; before: the content of the registry when
\* _make_sunpy_graph was last called; runs: the calls made so far;
\* seen: the content that the last lookup of another caller found in the
\* registry and the position of _make_sunpy_graph at that moment;
\* serial: whether the callers serialize lookups with _make_sunpy_graph
VARIABLES frame_transform_graph, graphs, backup_graph, small_graph, mpc,
          before, runs, seen, serial

gvars == <<frame_transform_graph, graphs, backup_graph, small_graph, mpc,
           before, runs, seen, serial>>

NoSeen == [graph |-> NoGraph, during |-> "none"]

\* the registry is not in use
GraphIdle ==
    /\ frame_transform_graph = 0
    /\ graphs = <<>>
    /\ backup_graph = 0
    /\ small_graph = 0
    /\ mpc = "off"
    /\ before = NoGraph
    /\ runs = 0
    /\ seen = NoSeen
    /\ serial = FALSE

\* ---------------------------------------------- the JSOC client
\* blocks: jsoc_response.query_args, each block given by what the server
\* answers to its export request; block: the block that request_data handles
\* next (from 1); responses: the list of response lists of request_data;
\* scan: the list that the loop of line 108 iterates, and whether it still is
\* the last list of responses; index: the i of the loop in progress (line
\* 108 or line 218); requestIDs: the list that request_data builds and get
\* empties; warned: the warnings issued; jpc: the position of
\* JSOCClient.get, and raised the exception that left it; server: the answer
\* the server gives to a status poll of each pending request; poll: the u of
\* line 219 and the request it is about; calls: the calls of get_request per
\* request; downloaded: the requests whose files get_request handed to the
\* downloader; sleeps: the calls of time.sleep(sleep), up to MaxSleeps
VARIABLES blocks, block, responses, scan, index, requestIDs, warned, jpc,
          raised, server, poll, calls, downloaded, sleeps

jvars == <<blocks, block, responses, scan, index, requestIDs, warned, jpc,
           raised, server, poll, calls, downloaded, sleeps>>

NoScan == [list |-> <<>>, attached |-> FALSE]
NoPoll == [request_id |-> 0, status_code |-> 0, status |-> ""]

\* the client is not in use
JsocIdle ==
    /\ blocks = <<>>
    /\ block = 0
    /\ responses = <<>>
    /\ scan = NoScan
    /\ index = 0
    /\ requestIDs = <<>>
    /\ warned = {}
    /\ jpc = "off"
    /\ raised = ""
    /\ server = <<>>
    /\ poll = NoPoll
    /\ calls = <<>>
    /\ downloaded = {}
    /\ sleeps = 0

\* ---------------------------------------------- state
\* src: the point to transform; dst: the destination frame;
\* pc: "ready" while a call is pending, "done" once it has returned or
\* raised, "compared" once the observers have been compared;
\* log: the finished calls, in order: function, arguments and outcome;
\* cmp: the last call of _observers_are_equal: its result and string_ok;
\* batch: the last call of hgs_to_hcc on a batched point: the values of its
\* distance and the outcome for each
VARIABLES src, dst, pc, log, cmp, batch

vars == <<src, dst, pc, log, cmp, batch>>

NoCmp == [status |-> "none", exc |-> "none", msg |-> "none", val |-> FALSE,
          string_ok |-> FALSE]

NoBatch == [rs |-> <<>>, out |-> <<>>]

Init ==
    /\ \E pair \in Registered :
          /\ src \in SrcPoints(pair[1])
          /\ dst \in DstFrames(pair[1], pair[2])
    /\ pc = "ready"
    /\ log = <<>>
    /\ cmp = NoCmp
    /\ batch = NoBatch
    /\ GraphIdle
    /\ JsocIdle

Last == log[Len(log)]

\* A call of the function fn on (src, dst) with outcome o returns or raises
Do(fn, from, to, o) ==
    /\ pc = "ready"
    /\ src.frame.type = from
    /\ dst.type = to
    /\ o.status # "offgrid"
    /\ log' = Append(log, [fn |-> fn, src |-> src, dst |-> dst, out |-> o])
    /\ pc' = "done"
    /\ UNCHANGED <<src, dst, cmp, batch>>
    /\ UNCHANGED <<gvars, jvars>>

Call_hgs_to_hgc == Do("hgs_to_hgc", "HGS", "HGC", hgs_to_hgc(src, dst))
Call_hgc_to_hgs == Do("hgc_to_hgs", "HGC", "HGS", hgc_to_hgs(src, dst))
Call_hcc_to_hpc == Do("hcc_to_hpc", "HCC", "HPC", hcc_to_hpc(src, dst))
Call_hpc_to_hcc == Do("hpc_to_hcc", "HPC", "HCC", hpc_to_hcc(src, dst))
Call_hcc_to_hgs == Do("hcc_to_hgs", "HCC", "HGS", hcc_to_hgs(src, dst))
Call_hgs_to_hcc == Do("hgs_to_hcc", "HGS", "HCC", hgs_to_hcc(src, dst))
Call_hpc_to_hpc == Do("hpc_to_hpc", "HPC", "HPC", hpc_to_hpc(src, dst))
Call_hgs_to_hgs == Do("hgs_to_hgs", "HGS", "HGS", hgs_to_hgs(src, dst))
Call_hgc_to_hgc == Do("hgc_to_hgc", "HGC", "HGC", hgc_to_hgc(src, dst))
Call_hcc_to_hcc == Do("hcc_to_hcc", "HCC", "HCC", hcc_to_hcc(src, dst))
\* the affine functions return (matrix, offset); the registry applies it
Call_hcrs_to_hgs == Do("hcrs_to_hgs", "HCRS", "HGS", transform_hcrs_to_hgs(src, dst))
Call_hgs_to_hcrs == Do("hgs_to_hcrs", "HGS", "HCRS", transform_hgs_to_hcrs(src, dst))

\* _observers_are_equal on the observers of the point and of the frame
Call_observers_are_equal ==
    /\ pc = "ready"
    /\ log = <<>>
    /\ src.frame.type \in {"HCC", "HPC"}
    /\ dst.type \in {"HCC", "HPC"}
    /\ \E string_ok \in BOOLEAN :
          LET r == _observers_are_equal(src.frame.observer, dst.observer, string_ok)
          IN  cmp' = [status |-> r.status, exc |-> r.exc, msg |-> r.msg,
                      val |-> r.val, string_ok |-> string_ok]
    /\ pc' = "compared"
    /\ UNCHANGED <<src, dst, log, batch>>
    /\ UNCHANGED <<gvars, jvars>>

\* hgs_to_hcc on the point src with more values in its distance
Call_hgs_to_hcc_batch ==
    /\ pc = "ready"
    /\ log = <<>>
    /\ src.frame.type = "HGS"
    /\ dst.type = "HCC"
    /\ \E tail \in BatchTails :
          LET rs == <<spherical(src.data).c3>> \o tail
              out == hgs_to_hcc_batch(src, rs, dst)
          IN  /\ \A i \in 1..Len(rs) : out[i].status # "offgrid"
              /\ batch' = [rs |-> rs, out |-> out]
    /\ pc' = "batched"
    /\ UNCHANGED <<src, dst, log, cmp>>
    /\ UNCHANGED <<gvars, jvars>>

\* the caller sends the returned point back to the frame it came from
Back ==
    /\ pc = "done"
    /\ Len(log) < MaxCalls
    /\ Last.out.status = "ok"
    /\ src' = Last.out.pt
    /\ dst' = src.frame
    /\ pc' = "ready"
    /\ UNCHANGED <<log, cmp, batch>>
    /\ UNCHANGED <<gvars, jvars>>

Next ==
    \/ Call_hgs_to_hgc
    \/ Call_hgc_to_hgs
    \/ Call_hcc_to_hpc
    \/ Call_hpc_to_hcc
    \/ Call_hcc_to_hgs
    \/ Call_hgs_to_hcc
    \/ Call_hpc_to_hpc
    \/ Call_hgs_to_hgs
    \/ Call_hgc_to_hgc
    \/ Call_hcc_to_hcc
    \/ Call_hcrs_to_hgs
    \/ Call_hgs_to_hcrs
    \/ Call_observers_are_equal
    \/ Call_hgs_to_hcc_batch
    \/ Back

Spec == Init /\ [][Next]_vars

\* no transform is in progress
TransformIdle ==
    /\ src = NoPoint
    /\ dst = NoFrame
    /\ pc = "off"
    /\ log = <<>>
    /\ cmp = NoCmp
    /\ batch = NoBatch

\* ---------------------------------------------- 4.9 registry pruning
keep_list ==
    {"icrs", "hcrs", "heliocentrictrueecliptic", "heliocentricmeanecliptic",
     "heliographic_stonyhurst", "heliographic_carrington",
     "heliocentric", "helioprojective",
     "gcrs", "precessedgeocentric", "geocentrictrueecliptic",
     "geocentricmeanecliptic", "cirs", "altaz", "itrs"}

\* the edges this module registers, and HCRS <-> ICRS of astropy
SunpyEdges ==
    {<<"heliographic_stonyhurst", "heliographic_carrington">>,
     <<"heliographic_carrington", "heliographic_stonyhurst">>,
     <<"heliocentric", "helioprojective">>,
     <<"helioprojective", "heliocentric">>,
     <<"heliocentric", "heliographic_stonyhurst">>,
     <<"heliographic_stonyhurst", "heliocentric">>,
     <<"helioprojective", "helioprojective">>,
     <<"hcrs", "heliographic_stonyhurst">>,
     <<"heliographic_stonyhurst", "hcrs">>,
     <<"heliographic_stonyhurst", "heliographic_stonyhurst">>,
     <<"heliographic_carrington", "heliographic_carrington">>,
     <<"heliocentric", "heliocentric">>,
     <<"hcrs", "icrs">>, <<"icrs", "hcrs">>}
\* edges of astropy that the registry may hold besides; fk5 and galactic are
\* not in keep_list
AstropyEdges ==
    {<<"icrs", "fk5">>, <<"fk5", "icrs">>, <<"fk5", "galactic">>,
     <<"galactic", "fk5">>, <<"icrs", "gcrs">>, <<"gcrs", "icrs">>}

\* graph.frame_set: the frames that an edge starts from or leads to
frame_set(edges) == {e[1] : e \in edges} \cup {e[2] : e \in edges}
\* the registries the process may start with
Registries ==
    {Graph(frame_set(SunpyEdges \cup es), SunpyEdges \cup es) :
        es \in SUBSET AstropyEdges}

\* lines 427-442: the graph without the frames that are not in keep_list,
\* their edges and their names
cull_list(graph) == {name \in graph.names : name \notin keep_list}
cull(graph) ==
    Graph(graph.names \ cull_list(graph),
          {e \in graph.edges : e[1] \notin cull_list(graph)
                                /\ e[2] \notin cull_list(graph)})

\* _add_astropy_node(graph): the frame Astropy, named "REPLACE", with an
\* edge to ICRS and an edge from it
_add_astropy_node(graph) ==
    Graph(graph.names \cup {"REPLACE"},
          graph.edges \cup {<<"REPLACE", "icrs">>, <<"icrs", "REPLACE">>})

\* the content of the registry
Registry == graphs[frame_transform_graph]
\* _make_sunpy_graph is not executing
Quiet == mpc \in {"idle", "returned", "raised"}

GraphInit ==
    /\ TransformIdle
    /\ JsocIdle
    /\ frame_transform_graph = 1
    /\ \E g \in Registries : graphs = <<g>>
    /\ backup_graph = 0
    /\ small_graph = 0
    /\ mpc = "idle"
    /\ before = NoGraph
    /\ runs = 0
    /\ seen = NoSeen
    /\ serial \in BOOLEAN

\* a statement of _make_sunpy_graph: from position from to position to
Step(from, to) ==
    /\ mpc = from
    /\ mpc' = to
    /\ UNCHANGED <<before, runs, seen, serial>>
    /\ UNCHANGED <<vars, jvars>>

\* _make_sunpy_graph() is called; no call is made after one that raised
Call_make_sunpy_graph ==
    /\ mpc \in {"idle", "returned"}
    /\ runs < MaxRuns
    /\ mpc' = "deepcopy_backup"
    /\ before' = Registry
    /\ runs' = runs + 1
    /\ backup_graph' = 0
    /\ small_graph' = 0
    /\ UNCHANGED <<frame_transform_graph, graphs, seen, serial>>
    /\ UNCHANGED <<vars, jvars>>

\* line 424: backup_graph = deepcopy(frame_transform_graph)
DeepcopyBackup ==
    /\ Step("deepcopy_backup", "deepcopy_small")
    /\ graphs' = Append(graphs, Registry)
    /\ backup_graph' = Len(graphs) + 1
    /\ UNCHANGED <<frame_transform_graph, small_graph>>

\* line 426: small_graph = deepcopy(frame_transform_graph)
DeepcopySmall ==
    /\ Step("deepcopy_small", "cull")
    /\ graphs' = Append(graphs, Registry)
    /\ small_graph' = Len(graphs) + 1
    /\ UNCHANGED <<frame_transform_graph, backup_graph>>

\* lines 427-442: the frames outside keep_list are removed from small_graph
Cull ==
    /\ Step("cull", "add_node")
    /\ graphs' = [graphs EXCEPT ![small_graph] = cull(@)]
    /\ UNCHANGED <<frame_transform_graph, backup_graph, small_graph>>

\* line 444: _add_astropy_node(small_graph)
AddAstropyNode ==
    /\ Step("add_node", "install")
    /\ graphs' = [graphs EXCEPT ![small_graph] = _add_astropy_node(@)]
    /\ UNCHANGED <<frame_transform_graph, backup_graph, small_graph>>

\* line 447: frame_transform_graph = small_graph
Install ==
    /\ Step("install", "render")
    /\ frame_transform_graph' = small_graph
    /\ UNCHANGED <<graphs, backup_graph, small_graph>>

\* line 449: docstr = make_transform_graph_docs() returns
Render ==
    /\ Step("render", "restore")
    /\ UNCHANGED <<frame_transform_graph, graphs, backup_graph, small_graph>>

\* line 449: make_transform_graph_docs() raises; the exception leaves
\* _make_sunpy_graph
RenderRaises ==
    /\ Step("render", "raised")
    /\ UNCHANGED <<frame_transform_graph, graphs, backup_graph, small_graph>>

\* _make_sunpy_graph whose line 452 takes small_graph
Restore_small_graph ==
    /\ Step("restore", "tweak")
    /\ frame_transform_graph' = small_graph
    /\ UNCHANGED <<graphs, backup_graph, small_graph>>

\* line 452: frame_transform_graph = backup_graph
Restore ==
    /\ Step("restore", "tweak")
    /\ frame_transform_graph' = backup_graph
    /\ UNCHANGED <<graphs, backup_graph, small_graph>>

\* lines 455-457: docstr = _tweak_graph(docstr); return docstr
TweakAndReturn ==
    /\ Step("tweak", "returned")
    /\ UNCHANGED <<frame_transform_graph, graphs, backup_graph, small_graph>>

\* another caller looks the registry up through the module-level name; with
\* serial, only while _make_sunpy_graph is not executing
Lookup ==
    /\ mpc # "off"
    /\ serial => Quiet
    /\ seen' = [graph |-> Registry, during |-> mpc]
    /\ UNCHANGED <<frame_transform_graph, graphs, backup_graph, small_graph, mpc,
                   before, runs, serial>>
    /\ UNCHANGED <<vars, jvars>>

GraphNext ==
    \/ Call_make_sunpy_graph
    \/ DeepcopyBackup
    \/ DeepcopySmall
    \/ Cull
    \/ AddAstropyNode
    \/ Install
    \/ Render
    \/ RenderRaises
    \/ Restore
    \/ TweakAndReturn
    \/ Lookup

GraphSpec == GraphInit /\ [][GraphNext]_<<vars, gvars>>

\* ---------------------------------------------- JSOCClient
\* What the server answers to the export request of a block: "accepted"
\* (HTTP 200, status 2), "rejected" (HTTP 200, another status), "too_big"
\* (HTTP 200, status 3 with the byte-limit error), "http_error" (another
\* HTTP code); "missing" is a block without start_time, end_time or series.
BlockKinds == {"missing", "accepted", "rejected", "too_big", "http_error"}
BlockLists == UNION {[1..n -> BlockKinds] : n \in 0..MaxBlocks}

error_response == "Request exceeds max byte limit of 100000MB"

Response(status_code, status, error, requestid) ==
    [status_code |-> status_code, status |-> status, error |-> error,
     requestid |-> requestid]

\* requests.post(JSOC_EXPORT_URL, data=payload) for block k: the server
\* names the request of block k k
post(kind, k) ==
    CASE kind = "accepted" -> Response(200, 2, "", k)
      [] kind = "rejected" -> Response(200, 4, "Bad recordset", k)
      [] kind = "too_big" -> Response(200, 3, error_response, k)
      [] OTHER -> Response(500, 0, "", k)

Returns(returns) == [raised |-> "", returns |-> returns]
Raises(exception) == [raised |-> exception, returns |-> <<>>]

\* _send_jsoc_request: the response, or Exception for an HTTP code other
\* than 200
_send_jsoc_request(kind, k) ==
    IF post(kind, k).status_code # 200
    THEN Raises("Exception")
    ELSE Returns(<<post(kind, k)>>)

\* _multi_request(**block): the list of responses. The two calls of lines
\* 481 and 483 give positional arguments to a function that takes keyword
\* arguments only: TypeError
_multi_request(kind, k) ==
    IF kind = "missing" THEN Returns(<<>>)
    ELSE IF _send_jsoc_request(kind, k).raised # ""
    THEN _send_jsoc_request(kind, k)
    ELSE IF /\ post(kind, k).status = 3
            /\ post(kind, k).error = error_response
    THEN Raises("TypeError")
    ELSE Returns(<<post(kind, k)>>)

\* list.pop(i) with i from 0: the item and the list without it
pop_first(list, i) == [item |-> list[1], list |-> Tail(list)]

pop(list, i) ==
    [item |-> list[i + 1],
     list |-> SubSeq(list, 1, i) \o SubSeq(list, i + 2, Len(list))]

\* the answers of the server to a status poll
Polls == {[status_code |-> 200, status |-> "0"],
          [status_code |-> 200, status |-> "1"],
          [status_code |-> 200, status |-> "4"],
          [status_code |-> 500, status |-> "0"]}

\* the test of line 224 without the status
IsReady_any_status(u) == u.status_code = 200

\* line 224: u.status_code == 200 and u.json()['status'] == '0'
IsReady(u) == u.status_code = 200 /\ u.status = "0"

\* jsoc.get(jsoc_response) is called
JsocInit ==
    /\ TransformIdle
    /\ GraphIdle
    /\ blocks \in BlockLists
    /\ block = 1
    /\ responses = <<>>
    /\ scan = NoScan
    /\ index = 0
    /\ requestIDs = <<>>
    /\ warned = {}
    /\ jpc = "request_data"
    /\ raised = ""
    /\ server = <<>>
    /\ poll = NoPoll
    /\ calls = [k \in 1..Len(blocks) |-> 0]
    /\ downloaded = {}
    /\ sleeps = 0

\* an exception leaves request_data and get
Leave(exception) ==
    /\ jpc' = "raised"
    /\ raised' = exception
    /\ UNCHANGED <<responses, scan, index, warned>>

\* lines 105-107: responses.append(self._multi_request(**block)), and the
\* loop of line 108 starts
MultiRequest ==
    /\ jpc = "request_data"
    /\ block <= Len(blocks)
    /\ IF _multi_request(blocks[block], block).raised # ""
       THEN Leave(_multi_request(blocks[block], block).raised)
       ELSE /\ responses' =
                 Append(responses, _multi_request(blocks[block], block).returns)
            /\ scan' = [list |-> _multi_request(blocks[block], block).returns,
                        attached |-> TRUE]
            /\ index' = 0
            /\ jpc' = "scan"
            /\ UNCHANGED <<raised, warned>>
    /\ UNCHANGED <<blocks, block, requestIDs, server, poll, calls, downloaded,
                   sleeps>>
    /\ UNCHANGED <<vars, gvars>>

\* lines 109-113: the warning, and responses.pop(i) on the list of lists
ScanCode ==
    IF index < Len(responses)
    THEN /\ warned' = warned \cup {[block |-> block, query |-> index,
                                     about |-> "code"]}
         /\ responses' = pop(responses, index).list
         /\ scan' = [scan EXCEPT !.attached = @ /\ index + 1 # Len(responses)]
         /\ index' = index + 1
         /\ UNCHANGED <<jpc, raised>>
    ELSE Leave("IndexError")

\* lines 114-121: the warning, and responses[-1].pop(i)
ScanStatus ==
    IF responses = <<>> \/ index >= Len(responses[Len(responses)])
    THEN Leave("IndexError")
    ELSE /\ warned' = warned \cup {[block |-> block, query |-> index,
                                     about |-> "status"]}
         /\ responses' = [responses EXCEPT ![Len(responses)] = pop(@, index).list]
         /\ scan' = IF scan.attached
                    THEN [scan EXCEPT !.list = pop(@, index).list]
                    ELSE scan
         /\ index' = index + 1
         /\ UNCHANGED <<jpc, raised>>

\* lines 108-121: one turn of the loop over the last list of responses
Scan ==
    /\ jpc = "scan"
    /\ index < Len(scan.list)
    /\ IF scan.list[index + 1].status_code # 200 THEN ScanCode
       ELSE IF scan.list[index + 1].status # 2 THEN ScanStatus
       ELSE /\ index' = index + 1
            /\ UNCHANGED <<responses, scan, warned, jpc, raised>>
    /\ UNCHANGED <<blocks, block, requestIDs, server, poll, calls, downloaded,
                   sleeps>>
    /\ UNCHANGED <<vars, gvars>>

\* line 124, after the loop of line 108: the identifiers of responses[-1]
\* are added to requestIDs, and the loop of line 105 goes on
Extract ==
    /\ jpc = "scan"
    /\ index >= Len(scan.list)
    /\ IF responses = <<>>
       THEN /\ Leave("IndexError")
            /\ UNCHANGED <<requestIDs, block>>
       ELSE /\ requestIDs' = requestIDs \o
                 [k \in 1..Len(responses[Len(responses)]) |->
                     responses[Len(responses)][k].requestid]
            /\ block' = block + 1
            /\ jpc' = "request_data"
            /\ UNCHANGED <<responses, scan, index, warned, raised>>
    /\ UNCHANGED <<blocks, server, poll, calls, downloaded, sleeps>>
    /\ UNCHANGED <<vars, gvars>>

\* lines 126-129 and 210-212: request_data returns requestIDs to get; the
\* server holds a status for each of them
ReturnIds ==
    /\ jpc = "request_data"
    /\ block > Len(blocks)
    /\ jpc' = "got_ids"
    /\ server' = [id \in {requestIDs[k] : k \in 1..Len(requestIDs)} |->
                     [status_code |-> 200, status |-> "1"]]
    /\ UNCHANGED <<blocks, block, responses, scan, index, requestIDs, warned,
                   raised, poll, calls, downloaded, sleeps>>
    /\ UNCHANGED <<vars, gvars>>

\* line 213: time.sleep(sleep/2.)
SleepHalf ==
    /\ jpc = "got_ids"
    /\ jpc' = "while"
    /\ UNCHANGED <<blocks, block, responses, scan, index, requestIDs, warned,
                   raised, server, poll, calls, downloaded, sleeps>>
    /\ UNCHANGED <<vars, gvars>>

\* line 217: while requestIDs; line 232: return r
While ==
    /\ jpc = "while"
    /\ IF requestIDs = <<>>
       THEN jpc' = "returned" /\ UNCHANGED index
       ELSE jpc' = "for" /\ index' = 0
    /\ UNCHANGED <<blocks, block, responses, scan, requestIDs, warned,
                   raised, server, poll, calls, downloaded, sleeps>>
    /\ UNCHANGED <<vars, gvars>>

\* lines 218-222: the next turn of for i, request_id in
\* enumerate(requestIDs): the status poll (check_request polls again and
\* prints), or the end of the loop
For ==
    /\ jpc = "for"
    /\ IF index < Len(requestIDs)
       THEN /\ poll' = [request_id |-> requestIDs[index + 1],
                        status_code |-> server[requestIDs[index + 1]].status_code,
                        status |-> server[requestIDs[index + 1]].status]
            /\ jpc' = "test"
       ELSE /\ jpc' = "while"
            /\ UNCHANGED poll
    /\ UNCHANGED <<blocks, block, responses, scan, index, requestIDs, warned,
                   raised, server, calls, downloaded, sleeps>>
    /\ UNCHANGED <<vars, gvars>>

\* lines 224-227: rID = requestIDs.pop(i); r = self.get_request(rID, ...).
\* get_request polls the status again (line 289) and hands the files to the
\* downloader if the request still is ready.
Ready ==
    /\ jpc = "test"
    /\ IsReady(poll)
    /\ requestIDs' = pop(requestIDs, index).list
    /\ calls' = [calls EXCEPT ![pop(requestIDs, index).item] = @ + 1]
    /\ downloaded' = IF IsReady(server[pop(requestIDs, index).item])
                      THEN downloaded \cup {pop(requestIDs, index).item}
                      ELSE downloaded
    /\ server' = [id \in DOMAIN server \ {pop(requestIDs, index).item} |->
                     server[id]]
    /\ index' = index + 1
    /\ jpc' = "for"
    /\ UNCHANGED <<blocks, block, responses, scan, warned, raised, poll, sleeps>>
    /\ UNCHANGED <<vars, gvars>>

\* lines 229-230: time.sleep(sleep)
NotReady ==
    /\ jpc = "test"
    /\ ~IsReady(poll)
    /\ sleeps' = IF sleeps < MaxSleeps THEN sleeps + 1 ELSE sleeps
    /\ index' = index + 1
    /\ jpc' = "for"
    /\ UNCHANGED <<blocks, block, responses, scan, requestIDs, warned, raised,
                   server, poll, calls, downloaded>>
    /\ UNCHANGED <<vars, gvars>>

\* the server changes its answer for a pending request
Server ==
    /\ jpc \in {"while", "for", "test"}
    /\ \E id \in DOMAIN server : \E answer \in Polls \ {server[id]} :
          server' = [server EXCEPT ![id] = answer]
    /\ UNCHANGED <<blocks, block, responses, scan, index, requestIDs, warned,
                   jpc, raised, poll, calls, downloaded, sleeps>>
    /\ UNCHANGED <<vars, gvars>>

\* the steps of JSOCClient.get
Client ==
    \/ MultiRequest
    \/ Scan
    \/ Extract
    \/ ReturnIds
    \/ SleepHalf
    \/ While
    \/ For
    \/ Ready
    \/ NotReady

JsocNext == Client \/ Server

JsocSpec == JsocInit /\ [][JsocNext]_jvars

\* get is a sequential program that runs on: time.sleep returns and every
\* request to the server is answered
JsocFairSpec == JsocSpec /\ WF_jvars(Client)

\* ---------------------------------------------- error kinds of section 7
\* the error kind of a raised exception, by its class and message
ErrorKind(out) ==
    CASE out.exc = "ValueError" /\ out.msg = "needs_obstime" -> "MissingParameter"
      [] out.exc = "ValueError" /\ out.msg = "matching_obstime" -> "MismatchedParameter"
      [] out.exc = "ConvertError" -> "InvalidObserver"
      [] out.exc = "ValueError" /\ out.msg = "compare_observers" -> "StructuralTypeError"
      [] OTHER -> "Other"

Returned(fn) == pc = "done" /\ Last.fn = fn
Failed(out) == out.status = "error" /\ out.pt = NoPoint

\* ---------------------------------------------- C1
HgPair == Returned("hgs_to_hgc") \/ Returned("hgc_to_hgs")
BothSetAndDiffer ==
    /\ Last.src.frame.obstime # NoneT
    /\ Last.dst.obstime # NoneT
    /\ Last.src.frame.obstime # Last.dst.obstime
EitherUnset == Last.src.frame.obstime = NoneT \/ Last.dst.obstime = NoneT

C2_Forward ==
    /\ Returned("hgs_to_hgc")
    /\ Last.dst.obstime # NoneT
    /\ Last.src.frame.obstime = Last.dst.obstime
    => /\ Last.out.status = "ok"
       /\ Last.out.pt.data.rep = "sph"
       /\ Last.out.pt.data.c1 =
             (spherical(Last.src.data).c1 + L0(Last.dst.obstime)) % 360
       /\ Last.out.pt.data.c2 = spherical(Last.src.data).c2
       /\ Last.out.pt.data.c3 = spherical(Last.src.data).c3
       /\ Last.out.pt.data.unit = spherical(Last.src.data).unit
       /\ Last.out.pt.frame.type = "HGC"
       /\ Last.out.pt.frame.obstime = Last.dst.obstime

C2_Witness ==
    /\ Returned("hgs_to_hgc")
    /\ Last.dst.obstime = 1
    /\ Last.src.data.c1 = 350
    /\ Last.out.status = "ok"
    /\ Last.out.pt.data.c1 = 80

\* ---------------------------------------------- C3
RoundTrip(there, back) ==
    /\ pc = "done"
    /\ Len(log) = 2
    /\ log[1].fn = there
    /\ log[2].fn = back
    /\ log[2].dst.obstime = log[1].dst.obstime

\* C3: hgs_to_hgc followed by hgc_to_hgs, and hgc_to_hgs followed by
\* hgs_to_hgc, between frames that share a set instant return the longitude,
\* latitude and distance of the point they started from
C3_RoundTrip ==
    RoundTrip("hgs_to_hgc", "hgc_to_hgs") \/ RoundTrip("hgc_to_hgs", "hgs_to_hgc")
    => /\ log[2].out.status = "ok"
       /\ log[2].out.pt.data = spherical(log[1].src.data)

C3_Witness ==
    /\ RoundTrip("hgs_to_hgc", "hgc_to_hgs")
    /\ log[1].src.data.c1 = 350
    /\ log[1].out.pt.data.c1 = 80
    /\ log[2].out.pt.data.c1 = 350

\* ---------------------------------------------- C4
SameType ==
    \/ Returned("hgs_to_hgs") /\ Last.src.frame.obstime = Last.dst.obstime
    \/ Returned("hgc_to_hgc") /\ Last.src.frame.obstime = Last.dst.obstime
    \/ Returned("hcc_to_hcc") /\ Last.src.frame.observer = Last.dst.observer
    \/ Returned("hpc_to_hpc") /\ Last.src.frame.observer = Last.dst.observer

\* C4: a same-type transform between frames with identical parameters
\* returns the source's data, attached to the destination frame, and calls
\* no other transform
C4_Identity ==
    SameType =>
        /\ Last.out.status = "ok"
        /\ Last.out.pt = Point(Last.dst, Last.src.data)
        /\ Len(Last.out.hops) = 1

C4_Witness ==
    /\ Returned("hcc_to_hcc")
    /\ Last.src.frame.observer = Label("earth")
    /\ Last.dst.observer = Label("earth")
    /\ Last.out.pt = Point(Last.dst, Last.src.data)

\* ---------------------------------------------- C5
\* C5: hpc_to_hcc on a point whose observer is a label fails with the
\* InvalidObserver kind, whatever the observer of the destination frame
C5_LabelIsInvalidObserver ==
    Returned("hpc_to_hcc") /\ Last.src.frame.observer.kind = "label" =>
        Failed(Last.out) /\ ErrorKind(Last.out) = "InvalidObserver"

\* ---------------------------------------------- C6
\* C6 as stated: hcc_to_hgs succeeds exactly when the observer of the
\* destination frame is an observer frame, and fails with InvalidObserver
\* otherwise
C6_DestinationObserver ==
    Returned("hcc_to_hgs") =>
        IF IsFrame(Last.dst.observer) THEN Last.out.status = "ok"
        ELSE Failed(Last.out) /\ ErrorKind(Last.out) = "InvalidObserver"

\* C6 amended: hcc_to_hgs succeeds exactly when the observer of the source
\* point is an observer frame, and fails with InvalidObserver otherwise; the
\* observer of the destination frame does not decide the outcome
C6_SourceObserver ==
    Returned("hcc_to_hgs") =>
        IF IsFrame(Last.src.frame.observer)
        THEN Last.out.status = "ok" /\ Last.out.pt.frame = Last.dst
        ELSE Failed(Last.out) /\ ErrorKind(Last.out) = "InvalidObserver"

C6_Witness ==
    /\ Returned("hcc_to_hgs")
    /\ IsFrame(Last.src.frame.observer)
    /\ Last.dst.observer = Label("earth")
    /\ Last.out.status = "ok"

\* ---------------------------------------------- C7
\* C7: hpc_to_hpc between observers that are not identical, one of them a
\* label, fails with the InvalidObserver kind and returns no point
C7_LabelIsInvalidObserver ==
    /\ Returned("hpc_to_hpc")
    /\ Last.src.frame.observer # Last.dst.observer
    /\ (Last.src.frame.observer.kind = "label" \/ Last.dst.observer.kind = "label")
    => Failed(Last.out) /\ ErrorKind(Last.out) = "InvalidObserver"

\* ---------------------------------------------- C8
Compared == pc = "compared" /\ cmp.string_ok
Within(obs_1, obs_2) ==
    /\ Abs(obs_1.lat - obs_2.lat) * RtolInv <= Abs(obs_2.lat)
    /\ Abs(obs_1.lon - obs_2.lon) * RtolInv <= Abs(obs_2.lon)
    /\ Abs(obs_1.radius - obs_2.radius) <= Abs(obs_2.radius) \div RtolInv

\* C8 as stated: with string_ok, _observers_are_equal raises the structural
\* error only for an argument that is neither a label nor an observer frame
C8_LabelNeverTheCause ==
    Compared /\ cmp.status = "error" =>
        \/ src.frame.observer.kind \notin {"label", "frame"}
        \/ dst.observer.kind \notin {"label", "frame"}

\* C8 amended: with string_ok, _observers_are_equal returns true for equal
\* labels; for two observer frames it returns true iff lat, lon and radius
\* all match within tolerance; for unequal arguments of which one is not an
\* observer frame, a label included, it raises the structural error
C8_LabelsMustBeEqual ==
    Compared =>
        LET obs_1 == src.frame.observer
            obs_2 == dst.observer
        IN  IF obs_1 = obs_2 THEN cmp.status = "ok" /\ cmp.val
            ELSE IF IsFrame(obs_1) /\ IsFrame(obs_2)
            THEN cmp.status = "ok" /\ (cmp.val <=> Within(obs_1, obs_2))
            ELSE /\ cmp.status = "error"
                 /\ cmp.exc = "ValueError"
                 /\ cmp.msg = "compare_observers"

C8_Witness ==
    /\ Compared
    /\ src.frame.observer = Label("earth")
    /\ dst.observer = Label("mars")
    /\ cmp.status = "error"

\* ---------------------------------------------- C9
ToUnsetCarrington ==
    /\ pc = "done"
    /\ Last.fn \in {"hgs_to_hgc", "hgc_to_hgc"}
    /\ Last.dst.obstime = NoneT

\* C9 as stated: hgs_to_hgc and hgc_to_hgc fail for every destination
\* Carrington frame with an unset instant, so that no returned point is
\* attached to such a frame
C9_NeverUnsetCarrington ==
    /\ ToUnsetCarrington => Failed(Last.out)
    /\ pc = "done" /\ Last.out.status = "ok" /\ Last.out.pt.frame.type = "HGC"
          => Last.out.pt.frame.obstime # NoneT

\* C9 amended: to a Carrington frame with an unset instant, hgs_to_hgc
\* always fails and hgc_to_hgc fails when the source instant is set; when
\* the source instant is unset too, hgc_to_hgc returns the source's data
\* attached to the destination frame
C9_UnsetToUnsetReturns ==
    ToUnsetCarrington =>
        IF Last.fn = "hgc_to_hgc" /\ Last.src.frame.obstime = NoneT
        THEN Last.out.status = "ok" /\ Last.out.pt = Point(Last.dst, Last.src.data)
        ELSE Failed(Last.out)

C9_Witness ==
    /\ ToUnsetCarrington
    /\ Last.fn = "hgc_to_hgc"
    /\ Last.src.frame.obstime = NoneT
    /\ Last.out.pt.frame.type = "HGC"
    /\ Last.out.pt.frame.obstime = NoneT

\* ---------------------------------------------- C10
SunAt(t) == <<"sun", t>>
HasQuery(q, queries) == \E i \in 1..Len(queries) : queries[i] = q

\* C10: hcrs_to_hgs with a set destination instant returns the zero
\* translation exactly when the source instant equals the destination
\* instant; otherwise the translation is the returned matrix applied to (Sun
\* at the destination instant - Sun at the source instant), and only then is
\* the Sun's position at the source instant looked up, as a third query
C10_Translation ==
    Returned("hcrs_to_hgs") /\ Last.dst.obstime # NoneT /\ Last.out.status = "ok" =>
        LET t_src == Last.src.frame.obstime
            t_dst == Last.dst.obstime
            out == Last.out
        IN  /\ (out.offset = <<0, 0, 0>>) <=> (t_src = t_dst)
            /\ t_src = t_dst => Len(out.queries) = 2 /\ out.offset = <<0, 0, 0>>
            /\ t_src # t_dst =>
                  /\ out.offset =
                        MatVec(out.matrix,
                               VSub(get_body_barycentric("sun", t_dst),
                                    get_body_barycentric("sun", t_src)))
                  /\ Len(out.queries) = 3
                  /\ out.queries[3] = SunAt(t_src)
            /\ HasQuery(SunAt(t_dst), out.queries)

C10_Witness ==
    /\ Returned("hcrs_to_hgs")
    /\ Last.src.frame.obstime = J2000
    /\ Last.dst.obstime = 2
    /\ Last.out.status = "ok"
    /\ Last.out.offset # <<0, 0, 0>>
    /\ Len(Last.out.queries) = 3

\* ---------------------------------------------- C11
Positions == {<<RSUN, 0, 0>>, <<0, RSUN, 0>>, <<0, 0, RSUN>>, <<1, 2, 3>>}
\* a point sent from HCRS to Stonyhurst and back to the HCRS frame it had
HcrsThereAndBack ==
    /\ pc = "done"
    /\ Len(log) = 2
    /\ log[1].fn = "hcrs_to_hgs"
    /\ log[2].fn = "hgs_to_hcrs"
    /\ log[2].dst = log[1].src.frame

\* C11: hgs_to_hcrs returns (Mt, -Mt.off), where (M, off) is what hcrs_to_hgs
\* returns for the swapped arguments, and for every position p the forward
\* map followed by the reverse map gives p back: Mt.(M.p + off) - Mt.off = p;
\* a point sent from HCRS to Stonyhurst and back has the data it started with
C11_Inverse ==
    /\ Returned("hgs_to_hcrs") /\ Last.out.status = "ok" =>
          LET fwd == hcrs_to_hgs(Last.dst, Last.src.frame)
              Mt == Last.out.matrix
              roff == Last.out.offset
          IN  /\ fwd.status = "ok"
              /\ Mt = matrix_transpose(fwd.matrix)
              /\ roff = VNeg(MatVec(Mt, fwd.offset))
              /\ \A p \in Positions :
                    VAdd(MatVec(Mt, VAdd(MatVec(fwd.matrix, p), fwd.offset)), roff) = p
    /\ HcrsThereAndBack =>
          /\ log[2].out.status = "ok"
          /\ log[2].out.pt.data = log[1].src.data

C11_Witness ==
    /\ HcrsThereAndBack
    /\ log[1].src.frame.obstime # log[1].dst.obstime
    /\ log[2].out.offset # <<0, 0, 0>>
    /\ log[2].out.pt.data = log[1].src.data

\* ---------------------------------------------- C14
\* the number of calls of fn among the hops
HopCount(hops, fn) == Cardinality({i \in 1..Len(hops) : hops[i].fn = fn})
\* the positions of the calls of fn among the hops
HopsOf(hops, fn) == {i \in 1..Len(hops) : hops[i].fn = fn}
GeometricPair ==
    /\ pc = "done"
    /\ Last.fn \in {"hpc_to_hcc", "hcc_to_hpc"}
    /\ IsFrame(Last.src.frame.observer)
    /\ IsFrame(Last.dst.observer)

\* C14: with geometric observers hpc_to_hcc and hcc_to_hpc return or raise
\* without exhausting the recursion: hpc_to_hcc calls itself at most once,
\* and then with a destination observer equal to the source's, so that the
\* nested call takes the direct branch; hcc_to_hpc never calls itself and
\* goes through hcc_to_hcc when the observers differ
C14_Terminates ==
    GeometricPair =>
        LET hops == Last.out.hops
        IN  /\ Last.out.status \in {"ok", "error"}
            /\ Last.out.exc # "RecursionError"
            /\ Last.fn = "hpc_to_hcc" =>
                  /\ HopCount(hops, "hpc_to_hcc") <= 2
                  /\ HopCount(hops, "hcc_to_hpc") = 0
                  /\ \A i \in HopsOf(hops, "hpc_to_hcc") :
                        i > 1 => /\ i = 2
                                 /\ hops[i].dst.observer = hops[i].src.observer
                                 /\ hops[i].src = Last.src.frame
            /\ Last.fn = "hcc_to_hpc" =>
                  /\ HopCount(hops, "hcc_to_hpc") = 1
                  /\ HopCount(hops, "hpc_to_hcc") = 0
                  /\ Len(hops) > 1 => hops[2].fn = "hcc_to_hcc"

C14_Witness ==
    /\ GeometricPair
    /\ Last.fn = "hpc_to_hcc"
    /\ Last.out.status = "ok"
    /\ HopCount(Last.out.hops, "hpc_to_hcc") = 2
    /\ HopCount(Last.out.hops, "hgs_to_hcc") = 1

\* ---------------------------------------------- C15
CarringtonToCarrington ==
    /\ Returned("hgc_to_hgc")
    /\ Last.src.frame.obstime # NoneT
    /\ Last.dst.obstime # NoneT
    /\ Last.src.frame.obstime # Last.dst.obstime

\* the hops of hgc_to_hgc from Carrington(t1) to the frame to, in order; the
\* Stonyhurst -> Stonyhurst hop goes through HCRS, and hgs_to_hcrs calls
\* hcrs_to_hgs with its arguments swapped
CarringtonRoute(from, to) ==
    <<Hop("hgc_to_hgc", from, to),
      Hop("hgc_to_hgs", from, HeliographicStonyhurst(from.obstime)),
      Hop("hgs_to_hgs", HeliographicStonyhurst(from.obstime),
                        HeliographicStonyhurst(to.obstime)),
      Hop("hgs_to_hcrs", HeliographicStonyhurst(from.obstime), DefaultHCRS),
      Hop("hcrs_to_hgs", DefaultHCRS, HeliographicStonyhurst(from.obstime)),
      Hop("hcrs_to_hgs", DefaultHCRS, HeliographicStonyhurst(to.obstime)),
      Hop("hgs_to_hgc", HeliographicStonyhurst(to.obstime), to)>>

\* C15: between two set, distinct instants t1 and t2, hgc_to_hgc performs
\* the hops Carrington(t1) -> Stonyhurst(t1) -> Stonyhurst(t2) ->
\* Carrington(t2) in that order, each Stonyhurst <-> Carrington hop between
\* frames of one instant; no error about a missing or mismatched instant
\* arises; a point with a length-valued distance is returned, and a
\* returned point is attached to the frame with instant t2
C15_Route ==
    CarringtonToCarrington =>
        LET hops == Last.out.hops
            route == CarringtonRoute(Last.src.frame, Last.dst)
        IN  /\ Len(hops) <= Len(route)
            /\ \A i \in 1..Len(hops) : hops[i] = route[i]
            /\ Len(hops) >= 3
            /\ Last.out.status = "error" =>
                  ErrorKind(Last.out) \notin {"MismatchedParameter", "MissingParameter"}
            /\ spherical(Last.src.data).unit = "km" => Last.out.status = "ok"
            /\ Last.out.status = "ok" =>
                  /\ hops = route
                  /\ Last.out.pt.frame = Last.dst
                  /\ Last.out.pt.frame.obstime = Last.dst.obstime

C15_Witness ==
    /\ CarringtonToCarrington
    /\ Last.src.frame.obstime = 1
    /\ Last.dst.obstime = 2
    /\ Last.out.status = "ok"
    /\ Len(Last.out.hops) = 7
    /\ Last.out.pt.frame.obstime = 2

\* ---------------------------------------------- C16
Batched == pc = "batched"
\* every value of the distance is 1 within the relative tolerance
AllAboutOne(rs) == \A i \in 1..Len(rs) : Abs(rs[i] - 1) <= 1 \div RtolInv
\* the distance that the Cartesian point of an outcome lies at
DistanceOf(out) == Norm(out.pt.data.c1, out.pt.data.c2, out.pt.data.c3)

\* C16: hgs_to_hcc puts a point at one solar radius exactly when its distance
\* is dimensionless and every value of it is about 1; a length-valued
\* distance of any magnitude is used as given, and a dimensionless distance
\* with a value that is not about 1 is not replaced, in a batch neither for
\* the values that are about 1: it is used as given and rejected for its unit
C16_Replacement ==
    /\ Batched =>
          LET unit == spherical(src.data).unit
              replaced == unit = "one" /\ AllAboutOne(batch.rs)
          IN  \A i \in 1..Len(batch.rs) :
                 /\ batch.out[i].status = "ok" =>
                       DistanceOf(batch.out[i]) =
                          IF replaced THEN RSUN ELSE batch.rs[i]
                 /\ IsFrame(dst.observer) =>
                       IF unit = "one" /\ ~replaced
                       THEN /\ batch.out[i].status = "error"
                            /\ batch.out[i].exc = "UnitConversionError"
                       ELSE batch.out[i].status = "ok"
    /\ Returned("hgs_to_hcc") /\ Last.out.status = "ok" =>
          DistanceOf(Last.out) =
             IF /\ spherical(Last.src.data).unit = "one"
                /\ AllAboutOne(<<spherical(Last.src.data).c3>>)
             THEN RSUN
             ELSE spherical(Last.src.data).c3

C16_Witness ==
    /\ Batched
    /\ spherical(src.data).unit = "one"
    /\ batch.rs = <<1, 2, 1>>
    /\ IsFrame(dst.observer)
    /\ batch.out[1].status = "error"
    /\ batch.out[3].exc = "UnitConversionError"

\* ---------------------------------------------- C12
\* the registry lost a frame or an edge that it held before the call
Culled == \/ before.names \ Registry.names # {}
          \/ before.edges \ Registry.edges # {}
\* the placeholder node or one of its two edges is in the registry
Placeholder(graph) ==
    \/ "REPLACE" \in graph.names
    \/ \E e \in graph.edges : "REPLACE" \in {e[1], e[2]}

\* C12: after _make_sunpy_graph returned normally, the registry holds
\* exactly the frames and the edges that it held before the call: no frame
\* was culled from it, and the placeholder node and its two edges are not in
\* it.
C12_RegistryAsBefore ==
    mpc = "returned" =>
        /\ Registry = before
        /\ ~Culled
        /\ ~Placeholder(Registry)

\* _make_sunpy_graph returned normally from a call that culled a frame from
\* small_graph and added the placeholder to it
C12_Witness ==
    /\ mpc = "returned"
    /\ cull_list(before) # {}
    /\ Placeholder(graphs[small_graph])
    /\ graphs[small_graph].names = (before.names \ cull_list(before)) \cup {"REPLACE"}

\* ---------------------------------------------- C17
\* C17: on every exit path of _make_sunpy_graph, the path where rendering
\* raises included, the registry is the full registry again: no exit leaves
\* the reduced registry installed.
C17_FullOnEveryExit ==
    mpc \in {"returned", "raised"} =>
        /\ Registry = before
        /\ frame_transform_graph # small_graph

\* ---------------------------------------------- C13
\* the reduced registry of the call in progress
Reduced == _add_astropy_node(cull(before))

\* C13: between the step that installs the reduced registry and the step
\* that restores the full one, a lookup from another thread observes the
\* reduced registry (culled frames absent, placeholder present); when the
\* calls of the utility are serialized with all other use of the registry,
\* no lookup ever observes the reduced registry.
C13_ReducedOnlyInBetween ==
    /\ seen.during \in {"render", "restore"} =>
          /\ seen.graph = Reduced
          /\ seen.graph.names \cap cull_list(before) = {}
          /\ Placeholder(seen.graph)
    /\ (serial /\ seen # NoSeen) => ~Placeholder(seen.graph)

\* ---------------------------------------------- C20
\* the response to block k has HTTP code 200 and JSON status 2
Accepted(k) == post(blocks[k], k).status_code = 200 /\ post(blocks[k], k).status = 2
\* the identifiers of the accepted responses, in block order
AcceptedIds ==
    [j \in 1..Len(SelectSeq([k \in 1..Len(blocks) |-> k], Accepted)) |->
        post(blocks[SelectSeq([k \in 1..Len(blocks) |-> k], Accepted)[j]],
             SelectSeq([k \in 1..Len(blocks) |-> k], Accepted)[j]).requestid]
\* the blocks that the server gave another response to
Refused == {k \in 1..Len(blocks) : blocks[k] # "missing" /\ ~Accepted(k)}

\* C20: request_data returns the identifiers of exactly the responses, over
\* all blocks in block order, with HTTP code 200 and JSON status 2; every
\* other response is warned about and removed from the list of its block.
C20_ExactlyAccepted ==
    /\ jpc # "raised"
    /\ jpc = "got_ids" =>
          /\ requestIDs = AcceptedIds
          /\ {w.block : w \in warned} = Refused
          /\ Len(responses) = Len(blocks)
          /\ \A k \in 1..Len(responses) : \A j \in 1..Len(responses[k]) :
                /\ responses[k][j].status_code = 200
                /\ responses[k][j].status = 2

\* ---------------------------------------------- C18
\* the identifiers in the pending list
Pending == {requestIDs[k] : k \in 1..Len(requestIDs)}
\* the identifiers that request_data returned to get
Requested == {AcceptedIds[k] : k \in 1..Len(AcceptedIds)}
\* request_data has returned to get
Polling == jpc \in {"got_ids", "while", "for", "test", "returned"}
\* the list without the identifier id
Without(list, id) == SelectSeq(list, LAMBDA x : x # id)

\* the calls of get_request so far: one for each requested identifier that
\* left the pending list, none for any other, and the pending list names no
\* identifier twice
OncePerId ==
    Polling =>
        /\ jpc = "got_ids" => Pending = Requested
        /\ Pending \subseteq Requested
        /\ \A k, j \in 1..Len(requestIDs) : requestIDs[k] = requestIDs[j] => k = j
        /\ \A id \in DOMAIN calls :
              calls[id] = IF id \in Requested \ Pending THEN 1 ELSE 0
        /\ jpc = "returned" => \A id \in Requested : calls[id] = 1
\* a step of get that calls get_request or changes the pending list: the
\* last poll was about one identifier and returned HTTP 200 with status '0';
\* that identifier alone leaves the list, and get_request is called for it
OnlyThePolledId ==
    (jpc \in {"while", "for", "test"}
        /\ (calls' # calls \/ requestIDs' # requestIDs)) =>
        /\ poll.status_code = 200
        /\ poll.status = "0"
        /\ poll.request_id \in Pending
        /\ requestIDs' = Without(requestIDs, poll.request_id)
        /\ calls' = [calls EXCEPT ![poll.request_id] = @ + 1]

AllPendingReady ==
    \A id \in DOMAIN server :
        server[id].status_code = 200 /\ server[id].status = "0"
\* the poll of line 219 returned HTTP 200 with status '0'
PolledReady == poll.status_code = 200 /\ poll.status = "0"
\* the step after a poll that did not report the request ready: get sleeps,
\* keeps the pending list, and goes on with the scan
SleepsAndGoesOn ==
    (jpc = "test" /\ jpc' # "test" /\ ~PolledReady) =>
        /\ requestIDs' = requestIDs
        /\ sleeps' = sleeps + 1 \/ (sleeps = MaxSleeps /\ sleeps' = sleeps)
        /\ jpc' = "for"
\* an identifier leaves the pending list only after a poll reported it ready
LeavesWhenReady ==
    (jpc \in {"while", "for", "test"} /\ requestIDs' # requestIDs) =>
        /\ PolledReady
        /\ requestIDs' = Without(requestIDs, poll.request_id)

\* C19: get eventually returns if every pending request is eventually
\* reported as HTTP 200 with status '0' and stays so; it returns only when
\* the pending list is empty, and it keeps polling, sleeping between the
\* polls, for as long as a request is not reported ready (a request whose
\* status is an error for ever never leaves the list).
C19_PollsUntilReady ==
    /\ (<>[]AllPendingReady) => [](jpc = "got_ids" => <>(jpc = "returned"))
    /\ [](jpc = "returned" => requestIDs = <<>>)
    /\ [][SleepsAndGoesOn]_jvars
    /\ [][LeavesWhenReady]_jvars

\* get returned after it slept on polls that did not report a request ready
C19_Witness ==
    /\ jpc = "returned"
    /\ Len(AcceptedIds) >= 2
    /\ sleeps >= 2
    /\ requestIDs = <<>>
    /\ \A id \in Requested : calls[id] = 1
====
